---- MODULE Spec2Model ----
(***************************************************************************)
(* A model of the docker client's `run` command (CmdRun), its CID file and *)
(* its daemon-error classification.                                        *)
(*                                                                         *)
(* Six specifications share this module:                                   *)
(*   Spec         one execution of CmdRun against a daemon, with the       *)
(*                attach goroutine, the ID-display goroutine and the       *)
(*                container as concurrent processes;                       *)
(*   SpecClassify runStartContainerErr applied to every bounded message;   *)
(*   SpecCid      sequences of cidFile.Write / cidFile.Close;              *)
(*   SpecBackspace fixStdinBackspaceBehavior and the writer it returns;    *)
(*   SpecForward  the signal forwarder between its start and after Stop;   *)
(*   SpecPipe     openReaderFromPipe with its copy goroutine and a reader. *)
(* Each specification keeps the variables of the others at their initial   *)
(* value.                                                                  *)
(***************************************************************************)
EXTENDS Integers, Sequences, FiniteSets, TLC

VARIABLES
    \* ---- CmdRun (Spec) ----
    fl,             \* the flags and external inputs of the run
    config,         \* config.AttachStdin/AttachStdout/AttachStderr/Tty
    pc,             \* position of the main goroutine in CmdRun
    result,         \* the error value CmdRun returns
    defers,         \* the stack of deferred calls, most recent first
    sigProxy,       \* local sigProxy
    ctxCancelled,   \* cancelFun() has been called on ctx
    trace,          \* calls issued by the main goroutine, in order
    sigc,           \* the signal forwarder: "none", "catching", "stopped"
    waitDisplayID,  \* the channel: "nil", "open", "closed"
    idEmitted,      \* number of times the ID was printed to cli.out
    errCh,          \* [made, buf]: the promise channel of the attach task
    attachTask,     \* the attach goroutine: "none", "running", "done"
    errAttach,      \* the error ContainerAttach returned
    resp,           \* the hijacked connection: "none", "open", "closed"
    startErr,       \* the error ContainerStart returned (start-failure path)
    status,         \* local status
    obs,            \* what the exit-status calls observed (history)
    monitor,        \* monitorTtySize: "none", "ok", "failed"
    container,      \* the daemon's container: [state, exitCode, restarts]
    wiring,         \* the streams and options given to the attach session
    detachKeys,     \* cli.configFile.DetachKeys
    \* ---- runStartContainerErr (SpecClassify) ----
    clsMsg,         \* the error message given to runStartContainerErr
    clsPc,          \* "start" / "done"
    clsResult,      \* the value runStartContainerErr returned
    \* ---- cidFile (SpecCid) ----
    cid,            \* the cidFile: [written, open]
    cidPath,        \* the backing path: [exists, content]
    cidLog,         \* history of Write/Close calls and their outcomes
    cidErr,         \* the error the last call returned
    \* ---- fixStdinBackspaceBehavior (SpecBackspace) ----
    bsTty,          \* the tty argument
    bsBuild,        \* system.GetOSVersion().Build
    bsWriter,       \* the writer returned: "none", "w", "delToBsWriter"
    bsLast,         \* the last Write: [b, got, buf]
    bsWrites,       \* number of Writes made
    \* ---- the signal forwarder (SpecForward) ----
    fwdPc,          \* "catching" / "stopped"
    sigArrived,     \* the signals the process received, in order
    sigQueue,       \* signals caught and not yet taken up, oldest first
    sigInflight,    \* the signal whose forwarding is in progress, if any
    kills,          \* the signal calls issued to the daemon, in order
    killsAtStop,    \* number of signal calls issued when Stop returned
    \* ---- openReaderFromPipe (SpecPipe) ----
    pipeSrc,        \* the results of the calls of p.Read, in order: [data, err]
    pipeReads,      \* number of calls of p.Read made
    pipePc,         \* the copy goroutine: "read", "write", "closeR", "closeW",
                    \* "closeP", "done"
    pipeCopyErr,    \* the error io.Copy returned
    pipeData,       \* the bytes of the pending w.Write not read yet
    pipeRerr,       \* the pipe's read-side close error
    pipeWerr,       \* the pipe's write-side close error
    pipeGot,        \* the bytes the consumer has read from r
    pipeSeen,       \* the error the consumer's last Read returned
    pipeSrcClosed   \* number of p.Close calls

runVars == <<fl, config, pc, result, defers, sigProxy, ctxCancelled, trace, sigc,
             waitDisplayID, idEmitted, errCh, attachTask, errAttach, resp,
             startErr, status, obs, monitor, container, wiring, detachKeys>>
clsVars == <<clsMsg, clsPc, clsResult>>
cidVars == <<cid, cidPath, cidLog, cidErr>>
bsVars == <<bsTty, bsBuild, bsWriter, bsLast, bsWrites>>
fwdVars == <<fwdPc, sigArrived, sigQueue, sigInflight, kills, killsAtStop>>
pipeVars == <<pipeSrc, pipeReads, pipePc, pipeCopyErr, pipeData, pipeRerr, pipeWerr,
              pipeGot, pipeSeen, pipeSrcClosed>>
vars == <<runVars, clsVars, cidVars, bsVars, fwdVars, pipeVars>>

----------------------------------------------------------------------------
(* Bounds of the model.                                                    *)

\* longest daemon error message, in words
MaxLen == 4
\* largest container exit code
MaxExit == 2
\* restarts of the container by the daemon or another client
MaxRestarts == 1
\* calls made on one CID file
MaxCidOps == 3
\* longest byte slice given to one Write
MaxBytes == 3
\* Writes made through one writer
MaxWrites == 2
\* signals the process receives
MaxSignals == 3
\* Reads of the source up to the one that ends it, and the bytes of one Read
MaxReads == 2
MaxChunk == 2

----------------------------------------------------------------------------
(* Strings.  An error message is a sequence of words; the phrases the code *)
(* looks for are sequences of words, so that prefix and substring tests    *)
(* are the tests of package strings on a coarser alphabet.                 *)

Envelope == <<"Error response from daemon: ">>
ContainerCommand == <<"Container command">>
errCmdNotFound == <<"not found", "or does not exist">>
errCmdCouldNotBeInvoked == <<"could not be invoked">>

Words == {"Error response from daemon: ", "Container command", "not found",
          "or does not exist", "could not be invoked", "w"}

RECURSIVE SeqsUpTo(_, _)
SeqsUpTo(S, n) ==
    IF n = 0 THEN {<<>>}
    ELSE LET shorter == SeqsUpTo(S, n - 1)
         IN  shorter \cup {Append(s, x) : s \in {t \in shorter : Len(t) = n - 1}, x \in S}

Messages == SeqsUpTo(Words, MaxLen)

HasPrefix(s, prefix) ==
    /\ Len(prefix) <= Len(s)
    /\ SubSeq(s, 1, Len(prefix)) = prefix

TrimPrefix(s, prefix) ==
    IF HasPrefix(s, prefix) THEN SubSeq(s, Len(prefix) + 1, Len(s)) ELSE s

Contains(s, substr) ==
    \E i \in 0..(Len(s) - Len(substr)) : SubSeq(s, i + 1, i + Len(substr)) = substr

----------------------------------------------------------------------------
(* Error values.  An error is [kind, code, msg]: nil, a Cli.StatusError    *)
(* with its StatusCode, or any other error with its message.               *)

Nil == [kind |-> "nil", code |-> 0, msg |-> <<>>]
StatusError(c) == [kind |-> "status", code |-> c, msg |-> <<>>]
Error(m) == [kind |-> "error", code |-> 0, msg |-> m]

ErrConflictAttachDetach == Error(<<"Conflicting options: -a and -d">>)
ErrConflictRestartPolicyAndAutoRemove == Error(<<"Conflicting options: --restart and --rm">>)
ErrConflictDetachAutoRemove == Error(<<"Conflicting options: --rm and -d">>)
ErrTtyInput == Error(<<"cannot enable tty mode on non tty input">>)
ErrPersistEOF == Error(<<"persistent connection closed">>)
ErrAttachFailed == Error(<<"attach failed">>)
ErrHijack == Error(<<"hijacked stream failed">>)
ErrCanceled == Error(<<"context canceled">>)

\* A variant of runStartContainerErr: the message is searched for the
\* phrases anywhere, without the "Container command" prefix test.
runStartContainerErrNoPrefix(msg) ==
    LET trimmedErr == TrimPrefix(msg, Envelope)
    IN  IF Contains(trimmedErr, errCmdNotFound) THEN StatusError(127)
        ELSE IF Contains(trimmedErr, errCmdCouldNotBeInvoked) THEN StatusError(126)
        ELSE StatusError(125)

runStartContainerErr(msg) ==
    LET trimmedErr == TrimPrefix(msg, Envelope)
    IN  IF HasPrefix(trimmedErr, ContainerCommand)
        THEN IF Contains(trimmedErr, errCmdNotFound) THEN StatusError(127)
             ELSE IF Contains(trimmedErr, errCmdCouldNotBeInvoked) THEN StatusError(126)
             ELSE StatusError(125)
        ELSE StatusError(125)

----------------------------------------------------------------------------
(* CmdRun: inputs.                                                         *)

RestartPolicies == {"no", "always", "on-failure"}

\* hostConfig.RestartPolicy.IsAlways() || hostConfig.RestartPolicy.IsOnFailure()
RestartConflicts(policy) == policy \in {"always", "on-failure"}

Flags == [autoRemove : BOOLEAN, detach : BOOLEAN, sigProxy : BOOLEAN,
          attachGiven : BOOLEAN, restart : RestartPolicies,
          imageEmpty : BOOLEAN, ttyInputErr : BOOLEAN, isTerminalOut : BOOLEAN,
          detachKeys : {"", "ctrl-x"}]

\* the detach keys of the configuration file
ConfigFileKeys == "ctrl-p,ctrl-q"

Configs == [AttachStdin : BOOLEAN, AttachStdout : BOOLEAN,
            AttachStderr : BOOLEAN, Tty : BOOLEAN]

\* The messages the daemon fails a call with, one for each class of
\* runStartContainerErr.
DaemonErrs == {<<"w">>,
               Envelope \o ContainerCommand \o errCmdNotFound,
               Envelope \o ContainerCommand \o errCmdCouldNotBeInvoked}

ExitCodes == 0..MaxExit

\* What the run has observed so far: the code ContainerWait returned (-1:
\* none), the message it failed with, the code getExitCode returned and the
\* container's state at that call, whether ContainerStart succeeded, and
\* the value received from errCh.
NoObs == [wait |-> -1, waitErr |-> <<>>, inspect |-> -1, inspectState |-> "none",
          started |-> FALSE, session |-> <<>>,
          \* and: the message getExitCode failed with, what
          \* holdHijackedConnection returned
          inspectErr |-> <<>>, hijack |-> <<>>]

\* No stream is wired and no option is set.
NoWiring == [in |-> "nil", out |-> "nil", stderr |-> "nil",
             options |-> [Stream |-> FALSE, Stdin |-> FALSE, Stdout |-> FALSE,
                          Stderr |-> FALSE, DetachKeys |-> ""]]

----------------------------------------------------------------------------
(* CmdRun: the decisions of the code, one definition each.                 *)

\* sigProxy := *flSigProxy; if config.Tty { sigProxy = false }
\* (variant: the tty test is missing)
SigProxyAlways(flSigProxy, tty) == flSigProxy
SigProxy(flSigProxy, tty) == flSigProxy /\ ~tty

\* attach := config.AttachStdin || config.AttachStdout || config.AttachStderr
attach == config.AttachStdin \/ config.AttachStdout \/ config.AttachStderr

\* if !config.AttachStdout && !config.AttachStderr
\* (variant: stdin is tested too)
IsDetachedModeNoAttach(cfg) == ~cfg.AttachStdin /\ ~cfg.AttachStdout /\ ~cfg.AttachStderr
IsDetachedMode(cfg) == ~cfg.AttachStdout /\ ~cfg.AttachStderr

\* The context removeContainer is called with: context.Background(), not ctx.
\* (variant: the run's ctx is shared)
RemoveCtxShared == "ctx"
RemoveCtx == "background"

\* On a start failure: if attach { cancelFun(); <-errCh }
\* (variant: the run returns without waiting for the attach task)
StartFailureNeverWaits(att) == FALSE
StartFailureWaits(att) == att

\* On a start failure the classified start error is returned; what the
\* attach task delivered is dropped.
\* (variant: a non-nil result of the attach task is returned)
StartFailureSessionResult(err, session) ==
    IF session # Nil THEN session ELSE runStartContainerErr(err)
StartFailureResult(err, session) == runStartContainerErr(err)

\* The first exit-status call of attached mode.
\* (variant: tty mode waits as well)
FirstExitCallAlwaysWait(autoRemove, tty) == "Wait"
FirstExitCall(autoRemove, tty) ==
    IF autoRemove THEN "Wait"
    ELSE IF ~tty THEN "Wait"
    ELSE "Inspect"

\* Auto-remove: status is assigned by ContainerWait, then by getExitCode.
\* (variant: the code of ContainerWait is kept)
AutoRemoveStatusFromWait(waitStatus, inspectStatus) == waitStatus
AutoRemoveStatus(waitStatus, inspectStatus) == inspectStatus

\* if status != 0 { return Cli.StatusError{StatusCode: status} }; return nil
\* (variant: the status is dropped)
StatusResultAlwaysNil(st) == Nil
StatusResult(st) == IF st # 0 THEN StatusError(st) ELSE Nil

\* if !config.AttachStdout && !config.AttachStderr (line 165): the goroutine
\* that displays the ID is started
\* (variant: stdin is tested too)
StartsDisplayIDNoAttach(cfg) == ~cfg.AttachStdin /\ ~cfg.AttachStdout /\ ~cfg.AttachStderr
StartsDisplayID(cfg) == ~cfg.AttachStdout /\ ~cfg.AttachStderr

\* if config.AttachStderr { if config.Tty { stderr = cli.out } else { stderr = cli.err } }
\* (variant: stderr is cli.err in tty mode as well)
StderrWriterSeparate(cfg) == IF cfg.AttachStderr THEN "cli.err" ELSE "nil"
StderrWriter(cfg) ==
    IF cfg.AttachStderr THEN (IF cfg.Tty THEN "cli.out" ELSE "cli.err") ELSE "nil"

\* if errAttach != nil && errAttach != httputil.ErrPersistEOF { return errAttach }
\* (variant: the run goes on whatever ContainerAttach returned)
AttachFailsNever(e) == FALSE
AttachFails(e) == e # Nil /\ e # ErrPersistEOF

\* What the attach goroutine delivers: errAttach when holdHijackedConnection
\* returned nil, its error otherwise.
\* (variant: errAttach is dropped)
SessionResultHijackOnly(errAtt, errHijack) == errHijack
SessionResult(errAtt, errHijack) == IF errHijack = Nil THEN errAtt ELSE errHijack

\* if (config.AttachStdin || config.AttachStdout || config.AttachStderr) &&
\*    config.Tty && cli.isTerminalOut
\* (variant: cli.isTerminalOut is not tested)
StartsMonitorNoTerminal(cfg, isTerminalOut) ==
    (cfg.AttachStdin \/ cfg.AttachStdout \/ cfg.AttachStderr) /\ cfg.Tty
StartsMonitor(cfg, isTerminalOut) ==
    (cfg.AttachStdin \/ cfg.AttachStdout \/ cfg.AttachStderr) /\ cfg.Tty /\ isTerminalOut

\* getExitCode: the ExitCode of the container's state at the time of the call.
InspectExitCode == container.exitCode

Count(x) == Cardinality({i \in DOMAIN trace : trace[i] = x})
Push(d, x) == <<x>> \o d

\* return r, with d the deferred calls registered so far
Return(r, d) ==
    /\ result' = r
    /\ defers' = d
    /\ pc' = IF d = <<>> THEN "Done" ELSE "Defer"

----------------------------------------------------------------------------
(* CmdRun: the main goroutine.                                             *)

RunInit ==
    /\ fl \in {f \in Flags : f.ttyInputErr => ~f.detach}
    /\ config \in Configs
    /\ pc = "Validate"
    /\ result = Nil
    /\ defers = <<>>
    /\ sigProxy = FALSE
    /\ ctxCancelled = FALSE
    /\ trace = <<>>
    /\ sigc = "none"
    /\ waitDisplayID = "nil"
    /\ idEmitted = 0
    /\ errCh = [made |-> FALSE, buf |-> <<>>]
    /\ attachTask = "none"
    /\ errAttach = Nil
    /\ resp = "none"
    /\ startErr = <<>>
    /\ status = 0
    /\ obs = NoObs
    /\ monitor = "none"
    /\ container = [state |-> "none", exitCode |-> 0, restarts |-> 0]
    /\ wiring = NoWiring
    /\ detachKeys = ConfigFileKeys

\* Lines 109-150: the image and tty checks, the detach conflicts, the
\* clearing of the attach flags, sigProxy and the run's context.
Validate ==
    /\ pc = "Validate"
    /\ IF fl.imageEmpty
       THEN Return(Nil, <<>>) /\ UNCHANGED <<config, sigProxy>>
       ELSE IF ~fl.detach
       THEN IF fl.ttyInputErr
            THEN Return(ErrTtyInput, <<>>) /\ UNCHANGED <<config, sigProxy>>
            ELSE /\ pc' = "Create"
                 /\ sigProxy' = SigProxy(fl.sigProxy, config.Tty)
                 /\ UNCHANGED <<config, result, defers>>
       ELSE IF fl.attachGiven
       THEN Return(ErrConflictAttachDetach, <<>>) /\ UNCHANGED <<config, sigProxy>>
       ELSE IF fl.autoRemove
       THEN Return(ErrConflictDetachAutoRemove, <<>>) /\ UNCHANGED <<config, sigProxy>>
       ELSE /\ config' = [config EXCEPT !.AttachStdin = FALSE,
                                        !.AttachStdout = FALSE,
                                        !.AttachStderr = FALSE]
            /\ pc' = "Create"
            /\ sigProxy' = SigProxy(fl.sigProxy, config.Tty)
            /\ UNCHANGED <<result, defers>>
    /\ UNCHANGED <<fl, ctxCancelled, trace, sigc, waitDisplayID, idEmitted, errCh,
                   attachTask, errAttach, resp, startErr, status, obs, monitor,
                   container>>
    /\ UNCHANGED <<wiring, detachKeys>>
    /\ UNCHANGED <<clsVars, cidVars, bsVars, fwdVars, pipeVars>>

\* Lines 152-175: createContainer; then the signal forwarder, the goroutine
\* that displays the ID, and the --restart/--rm conflict.
CreateContainer ==
    /\ pc = "Create"
    /\ \/ \E m \in DaemonErrs :
            /\ trace' = Append(trace, "create")
            /\ Return(runStartContainerErr(m), <<>>)
            /\ UNCHANGED <<sigc, waitDisplayID, container>>
       \/ /\ container' = [container EXCEPT !.state = "created"]
          /\ trace' = IF sigProxy
                      THEN trace \o <<"create", "forwardAllSignals">>
                      ELSE Append(trace, "create")
          /\ sigc' = IF sigProxy THEN "catching" ELSE sigc
          /\ waitDisplayID' = IF StartsDisplayID(config) THEN "open" ELSE waitDisplayID
          /\ LET d == IF sigProxy THEN <<"StopCatch">> ELSE <<>>
             IN  IF fl.autoRemove /\ RestartConflicts(fl.restart)
                 THEN Return(ErrConflictRestartPolicyAndAutoRemove, d)
                 ELSE pc' = "Attach" /\ defers' = d /\ UNCHANGED result
    /\ UNCHANGED <<fl, config, sigProxy, ctxCancelled, idEmitted, errCh, attachTask,
                   errAttach, resp, startErr, status, obs, monitor>>
    /\ UNCHANGED <<wiring, detachKeys>>
    /\ UNCHANGED <<clsVars, cidVars, bsVars, fwdVars, pipeVars>>

\* defer removeContainer(context.Background(), ...) when *flAutoRemove
WithRemove(d) == IF fl.autoRemove THEN Push(d, "removeContainer") ELSE d

\* Lines 176-234: ContainerAttach, the attach goroutine, the deferred remove.
ContainerAttach ==
    /\ pc = "Attach"
    /\ IF attach
       THEN /\ trace' = Append(trace, "attach")
            /\ detachKeys' = IF fl.detachKeys # "" THEN fl.detachKeys ELSE detachKeys
            /\ wiring' = [in |-> IF config.AttachStdin THEN "cli.in" ELSE "nil",
                          out |-> IF config.AttachStdout THEN "cli.out" ELSE "nil",
                          stderr |-> StderrWriter(config),
                          options |-> [Stream |-> TRUE,
                                       Stdin |-> config.AttachStdin,
                                       Stdout |-> config.AttachStdout,
                                       Stderr |-> config.AttachStderr,
                                       DetachKeys |-> detachKeys']]
            /\ \E e \in {Nil, ErrPersistEOF, ErrAttachFailed} :
                 /\ errAttach' = e
                 /\ IF AttachFails(e)
                    THEN /\ Return(e, defers)
                         /\ UNCHANGED <<errCh, attachTask, resp>>
                    ELSE /\ resp' = "open"
                         /\ errCh' = [made |-> TRUE, buf |-> <<>>]
                         /\ attachTask' = "running"
                         /\ defers' = WithRemove(Push(defers, "resp.Close"))
                         /\ pc' = "Start"
                         /\ UNCHANGED result
       ELSE /\ defers' = WithRemove(defers)
            /\ pc' = "Start"
            /\ UNCHANGED <<trace, result, errCh, attachTask, errAttach, resp, wiring,
                           detachKeys>>
    /\ UNCHANGED <<fl, config, sigProxy, ctxCancelled, sigc, waitDisplayID, idEmitted,
                   startErr, status, obs, monitor, container>>
    /\ UNCHANGED <<clsVars, cidVars, bsVars, fwdVars, pipeVars>>

\* Lines 237-248: ContainerStart; on failure cancelFun() when attached.
ContainerStart ==
    /\ pc = "Start"
    /\ trace' = Append(trace, "start")
    /\ \/ /\ container' = [container EXCEPT !.state = "running"]
          /\ obs' = [obs EXCEPT !.started = TRUE]
          /\ pc' = "Monitor"
          /\ UNCHANGED <<result, defers, ctxCancelled, startErr>>
       \/ \E m \in DaemonErrs :
            /\ UNCHANGED <<container, obs>>
            /\ startErr' = m
            /\ IF StartFailureWaits(attach)
               THEN /\ ctxCancelled' = TRUE
                    /\ pc' = "StartFailed"
                    /\ UNCHANGED <<result, defers>>
               ELSE /\ Return(StartFailureResult(m, Nil), defers)
                    /\ UNCHANGED ctxCancelled
    /\ UNCHANGED <<fl, config, sigProxy, sigc, waitDisplayID, idEmitted, errCh,
                   attachTask, errAttach, resp, status, monitor>>
    /\ UNCHANGED <<wiring, detachKeys>>
    /\ UNCHANGED <<clsVars, cidVars, bsVars, fwdVars, pipeVars>>

\* Lines 243-247: <-errCh, then return runStartContainerErr(err).
StartFailedReceive ==
    /\ pc = "StartFailed"
    /\ errCh.buf # <<>>
    /\ errCh' = [errCh EXCEPT !.buf = <<>>]
    /\ trace' = Append(trace, "<-errCh")
    /\ obs' = [obs EXCEPT !.session = <<Head(errCh.buf)>>]
    /\ Return(StartFailureResult(startErr, Head(errCh.buf)), defers)
    /\ UNCHANGED <<fl, config, sigProxy, ctxCancelled, sigc, waitDisplayID, idEmitted,
                   attachTask, errAttach, resp, startErr, status, monitor, container>>
    /\ UNCHANGED <<wiring, detachKeys>>
    /\ UNCHANGED <<clsVars, cidVars, bsVars, fwdVars, pipeVars>>

\* Lines 250-254: monitorTtySize; its error is printed, nothing else.
MonitorTtySize ==
    /\ pc = "Monitor"
    /\ IF StartsMonitor(config, fl.isTerminalOut)
       THEN /\ trace' = Append(trace, "monitorTtySize")
            /\ \E ok \in BOOLEAN : monitor' = IF ok THEN "ok" ELSE "failed"
       ELSE UNCHANGED <<trace, monitor>>
    /\ pc' = "Session"
    /\ UNCHANGED <<fl, config, result, defers, sigProxy, ctxCancelled, sigc,
                   waitDisplayID, idEmitted, errCh, attachTask, errAttach, resp,
                   startErr, status, obs, container>>
    /\ UNCHANGED <<wiring, detachKeys>>
    /\ UNCHANGED <<clsVars, cidVars, bsVars, fwdVars, pipeVars>>

\* where the run goes once the session is over (lines 264, 273, 284)
AfterSession ==
    IF IsDetachedMode(config) THEN "DisplayID"
    ELSE FirstExitCall(fl.autoRemove, config.Tty)

\* Lines 256-261: if errCh != nil, <-errCh; a non-nil error is returned.
WaitSession ==
    /\ pc = "Session"
    /\ IF errCh.made
       THEN /\ errCh.buf # <<>>
            /\ errCh' = [errCh EXCEPT !.buf = <<>>]
            /\ trace' = Append(trace, "<-errCh")
            /\ obs' = [obs EXCEPT !.session = <<Head(errCh.buf)>>]
            /\ IF Head(errCh.buf) # Nil
               THEN Return(Head(errCh.buf), defers)
               ELSE pc' = AfterSession /\ UNCHANGED <<result, defers>>
       ELSE /\ pc' = AfterSession
            /\ UNCHANGED <<errCh, trace, obs, result, defers>>
    /\ UNCHANGED <<fl, config, sigProxy, ctxCancelled, sigc, waitDisplayID, idEmitted,
                   attachTask, errAttach, resp, startErr, status, monitor, container>>
    /\ UNCHANGED <<wiring, detachKeys>>
    /\ UNCHANGED <<clsVars, cidVars, bsVars, fwdVars, pipeVars>>

\* Lines 264-268: detached mode, <-waitDisplayID and return nil.
DetachedReturn ==
    /\ pc = "DisplayID"
    /\ waitDisplayID = "closed"
    /\ trace' = Append(trace, "<-waitDisplayID")
    /\ Return(Nil, defers)
    /\ UNCHANGED <<fl, config, sigProxy, ctxCancelled, sigc, waitDisplayID, idEmitted,
                   errCh, attachTask, errAttach, resp, startErr, status, obs, monitor,
                   container>>
    /\ UNCHANGED <<wiring, detachKeys>>
    /\ UNCHANGED <<clsVars, cidVars, bsVars, fwdVars, pipeVars>>

\* Lines 276-278 and 286-288: ContainerWait returns once the container has
\* exited; its error is classified with auto-remove, returned as is without.
ContainerWait ==
    /\ pc = "Wait"
    /\ trace' = Append(trace, "wait")
    /\ \/ /\ container.state = "exited"
          /\ status' = container.exitCode
          /\ obs' = [obs EXCEPT !.wait = container.exitCode]
          /\ IF fl.autoRemove
             THEN pc' = "Inspect" /\ UNCHANGED <<result, defers>>
             ELSE Return(StatusResult(container.exitCode), defers)
       \/ \E m \in DaemonErrs :
            /\ Return(IF fl.autoRemove THEN runStartContainerErr(m) ELSE Error(m), defers)
            /\ obs' = [obs EXCEPT !.waitErr = m]
            /\ UNCHANGED status
    /\ UNCHANGED <<fl, config, sigProxy, ctxCancelled, sigc, waitDisplayID, idEmitted,
                   errCh, attachTask, errAttach, resp, startErr, monitor, container>>
    /\ UNCHANGED <<wiring, detachKeys>>
    /\ UNCHANGED <<clsVars, cidVars, bsVars, fwdVars, pipeVars>>

\* Lines 279-281 and 292-294: getExitCode, then lines 297-300.
GetExitCode ==
    /\ pc = "Inspect"
    /\ trace' = Append(trace, "inspect")
    /\ \/ LET st == IF fl.autoRemove
                    THEN AutoRemoveStatus(status, InspectExitCode)
                    ELSE InspectExitCode
          IN  /\ status' = st
              /\ obs' = [obs EXCEPT !.inspect = InspectExitCode,
                                    !.inspectState = container.state]
              /\ Return(StatusResult(st), defers)
       \/ \E m \in DaemonErrs :
            /\ Return(Error(m), defers)
            /\ obs' = [obs EXCEPT !.inspectErr = m]
            /\ UNCHANGED status
    /\ UNCHANGED <<fl, config, sigProxy, ctxCancelled, sigc, waitDisplayID, idEmitted,
                   errCh, attachTask, errAttach, resp, startErr, monitor, container>>
    /\ UNCHANGED <<wiring, detachKeys>>
    /\ UNCHANGED <<clsVars, cidVars, bsVars, fwdVars, pipeVars>>

\* The deferred calls, run last-registered first when CmdRun returns:
\* removeContainer (lines 227-233), resp.Close (215), signal.StopCatch (159).
\* A daemon call made with a cancelled context fails without reaching the
\* daemon.
RunDeferred ==
    /\ pc = "Defer"
    /\ defers # <<>>
    /\ defers' = Tail(defers)
    /\ pc' = IF Tail(defers) = <<>> THEN "Done" ELSE "Defer"
    /\ CASE Head(defers) = "removeContainer" ->
              IF RemoveCtx = "ctx" /\ ctxCancelled
              THEN UNCHANGED <<trace, container, resp, sigc>>
              ELSE /\ trace' = Append(trace, "remove")
                   /\ \E ok \in BOOLEAN :
                        container' = IF ok THEN [container EXCEPT !.state = "removed"]
                                     ELSE container
                   /\ UNCHANGED <<resp, sigc>>
         [] Head(defers) = "resp.Close" ->
              /\ resp' = "closed"
              /\ UNCHANGED <<trace, container, sigc>>
         [] Head(defers) = "StopCatch" ->
              /\ sigc' = "stopped"
              /\ trace' = Append(trace, "StopCatch")
              /\ UNCHANGED <<container, resp>>
    /\ UNCHANGED <<fl, config, result, sigProxy, ctxCancelled, waitDisplayID,
                   idEmitted, errCh, attachTask, errAttach, startErr, status, obs,
                   monitor, wiring, detachKeys>>
    /\ UNCHANGED <<clsVars, cidVars, bsVars, fwdVars, pipeVars>>

----------------------------------------------------------------------------
(* CmdRun: the goroutines it starts, and the container.                    *)

\* Lines 168-171: print the ID, close(waitDisplayID).
DisplayID ==
    /\ waitDisplayID = "open"
    /\ idEmitted' = idEmitted + 1
    /\ waitDisplayID' = "closed"
    /\ UNCHANGED <<fl, config, pc, result, defers, sigProxy, ctxCancelled, trace, sigc,
                   errCh, attachTask, errAttach, resp, startErr, status, obs, monitor,
                   container>>
    /\ UNCHANGED <<wiring, detachKeys>>
    /\ UNCHANGED <<clsVars, cidVars, bsVars, fwdVars, pipeVars>>

\* Lines 217-223: holdHijackedConnection ends cleanly, with a stream error,
\* or because ctx was cancelled; the promise delivers errAttach when it
\* ended cleanly, its error otherwise.
HoldHijackedConnection ==
    /\ attachTask = "running"
    /\ \E errHijack \in {Nil, ErrHijack} \cup (IF ctxCancelled THEN {ErrCanceled} ELSE {}) :
         /\ errCh' = [errCh EXCEPT !.buf = <<SessionResult(errAttach, errHijack)>>]
         /\ obs' = [obs EXCEPT !.hijack = <<errHijack>>]
    /\ attachTask' = "done"
    /\ UNCHANGED <<fl, config, pc, result, defers, sigProxy, ctxCancelled, trace, sigc,
                   waitDisplayID, idEmitted, errAttach, resp, startErr, status,
                   monitor, container>>
    /\ UNCHANGED <<wiring, detachKeys>>
    /\ UNCHANGED <<clsVars, cidVars, bsVars, fwdVars, pipeVars>>

\* The container's process exits.
ContainerExit ==
    /\ container.state = "running"
    /\ \E c \in ExitCodes :
         container' = [container EXCEPT !.state = "exited", !.exitCode = c]
    /\ UNCHANGED <<fl, config, pc, result, defers, sigProxy, ctxCancelled, trace, sigc,
                   waitDisplayID, idEmitted, errCh, attachTask, errAttach, resp,
                   startErr, status, obs, monitor>>
    /\ UNCHANGED <<wiring, detachKeys>>
    /\ UNCHANGED <<clsVars, cidVars, bsVars, fwdVars, pipeVars>>

\* The container is started again (its restart policy, or another client).
ContainerRestart ==
    /\ container.state = "exited"
    /\ container.restarts < MaxRestarts
    /\ container' = [state |-> "running", exitCode |-> 0,
                     restarts |-> container.restarts + 1]
    /\ UNCHANGED <<fl, config, pc, result, defers, sigProxy, ctxCancelled, trace, sigc,
                   waitDisplayID, idEmitted, errCh, attachTask, errAttach, resp,
                   startErr, status, obs, monitor>>
    /\ UNCHANGED <<wiring, detachKeys>>
    /\ UNCHANGED <<clsVars, cidVars, bsVars, fwdVars, pipeVars>>

Next ==
    \/ Validate
    \/ CreateContainer
    \/ ContainerAttach
    \/ ContainerStart
    \/ StartFailedReceive
    \/ MonitorTtySize
    \/ WaitSession
    \/ DetachedReturn
    \/ ContainerWait
    \/ GetExitCode
    \/ RunDeferred
    \/ DisplayID
    \/ HoldHijackedConnection
    \/ ContainerExit
    \/ ContainerRestart

----------------------------------------------------------------------------
(* runStartContainerErr applied to a message.                              *)

ClsIdle == clsMsg = <<>> /\ clsPc = "idle" /\ clsResult = Nil

ClsInit == clsMsg \in Messages /\ clsPc = "start" /\ clsResult = Nil

Classify ==
    /\ clsPc = "start"
    /\ clsResult' = runStartContainerErr(clsMsg)
    /\ clsPc' = "done"
    /\ UNCHANGED clsMsg
    /\ UNCHANGED <<runVars, cidVars, bsVars, fwdVars, pipeVars>>

----------------------------------------------------------------------------
(* cidFile: Write and Close on the file that records the container ID.     *)

\* the container IDs written, as sequences of characters
Ids == {<<"a">>, <<"b", "c">>}

ErrCidWrite == Error(<<"Failed to write the container ID to the file">>)
ErrCidRemove == Error(<<"failed to remove the CID file">>)

\* if !cid.written { os.Remove(cid.path) }
\* (variant: the written flag is ignored)
RemovesOnCloseAlways(written) == TRUE
RemovesOnClose(written) == ~written

\* A cidFile as it is handed to CmdRun's callee: the path was created empty,
\* the handle is open, nothing was written.
CidInit ==
    /\ cid = [written |-> FALSE, open |-> TRUE]
    /\ cidPath = [exists |-> TRUE, content |-> <<>>]
    /\ cidLog = <<>>
    /\ cidErr = Nil

\* Lines 40-46: cid.file.Write([]byte(id)) accepts n bytes of id; it fails
\* when n < len(id), and always on a closed handle; cid.written is set only
\* when it did not fail.
CidWrite ==
    /\ Len(cidLog) < MaxCidOps
    /\ \E id \in Ids :
       \E n \in (IF cid.open THEN 0..Len(id) ELSE {0}) :
         LET ok == cid.open /\ n = Len(id)
         IN  /\ cidPath' = [cidPath EXCEPT !.content = @ \o SubSeq(id, 1, n)]
             /\ cid' = IF ok THEN [cid EXCEPT !.written = TRUE] ELSE cid
             /\ cidErr' = IF ok THEN Nil ELSE ErrCidWrite
             /\ cidLog' = Append(cidLog, [op |-> "Write", id |-> id, n |-> n,
                                          tried |-> FALSE, removed |-> FALSE,
                                          err |-> cidErr'])
    /\ UNCHANGED <<runVars, clsVars, bsVars, fwdVars, pipeVars>>

\* Lines 28-38: cid.file.Close(); when the file was not written,
\* os.Remove(cid.path), which fails when the path is gone and may fail
\* otherwise; its failure is returned as an error of Close.
CidClose ==
    /\ Len(cidLog) < MaxCidOps
    /\ cid' = [cid EXCEPT !.open = FALSE]
    /\ IF RemovesOnClose(cid.written)
       THEN \E removed \in (IF cidPath.exists THEN BOOLEAN ELSE {FALSE}) :
              /\ cidPath' = IF removed THEN [exists |-> FALSE, content |-> <<>>]
                            ELSE cidPath
              /\ cidErr' = IF removed THEN Nil ELSE ErrCidRemove
              /\ cidLog' = Append(cidLog, [op |-> "Close", id |-> <<>>, n |-> 0,
                                           tried |-> TRUE, removed |-> removed,
                                           err |-> cidErr'])
       ELSE /\ cidErr' = Nil
            /\ cidLog' = Append(cidLog, [op |-> "Close", id |-> <<>>, n |-> 0,
                                         tried |-> FALSE, removed |-> FALSE,
                                         err |-> Nil])
            /\ UNCHANGED cidPath
    /\ UNCHANGED <<runVars, clsVars, bsVars, fwdVars, pipeVars>>

----------------------------------------------------------------------------
(* fixStdinBackspaceBehavior and delToBsWriter.Write.                      *)

\* the first build of Windows whose console treats DEL as VK_BACK
FixedBuild == 14350
backspace == 8
del == 127

Bytes == {backspace, del, 65}
Builds == {FixedBuild - 1, FixedBuild, FixedBuild + 1}
ByteSlices == SeqsUpTo(Bytes, MaxBytes)

NoWrite == [b |-> <<>>, got |-> <<>>, buf |-> <<>>]

\* if !tty || system.GetOSVersion().Build >= 14350 { return w }
ReturnsPlainWriter(tty, build) == ~tty \/ build >= FixedBuild

\* the byte delToBsWriter.Write puts in bc[i] for c = b[i]
\* (variant: the else branch is missing, every byte becomes a backspace)
delToBsNoElse(c) == backspace
delToBs(c) == IF c = del THEN backspace ELSE c

BsIdle ==
    /\ bsTty = FALSE
    /\ bsBuild = 0
    /\ bsWriter = "idle"
    /\ bsLast = NoWrite
    /\ bsWrites = 0

BsInit ==
    /\ bsTty \in BOOLEAN
    /\ bsBuild \in Builds
    /\ bsWriter = "none"
    /\ bsLast = NoWrite
    /\ bsWrites = 0

\* Lines 34-39: the writer itself, or a delToBsWriter around it.
FixStdinBackspaceBehavior ==
    /\ bsWriter = "none"
    /\ bsWriter' = IF ReturnsPlainWriter(bsTty, bsBuild) THEN "w" ELSE "delToBsWriter"
    /\ UNCHANGED <<bsTty, bsBuild, bsLast, bsWrites>>
    /\ UNCHANGED <<runVars, clsVars, cidVars, fwdVars, pipeVars>>

\* Lines 45-59: Write(b) on the writer returned; a delToBsWriter fills a new
\* slice bc and gives it to the writer it wraps, b is left as it was.
BsWrite ==
    /\ bsWriter \in {"w", "delToBsWriter"}
    /\ bsWrites < MaxWrites
    /\ \E b \in ByteSlices :
         LET bc == [i \in 1..Len(b) |-> delToBs(b[i])]
         IN  bsLast' = [b |-> b,
                        got |-> IF bsWriter = "delToBsWriter" THEN bc ELSE b,
                        buf |-> b]
    /\ bsWrites' = bsWrites + 1
    /\ UNCHANGED <<bsTty, bsBuild, bsWriter>>
    /\ UNCHANGED <<runVars, clsVars, cidVars, fwdVars, pipeVars>>

----------------------------------------------------------------------------
(* The signal forwarder: forwardAllSignals starts it, signal.StopCatch     *)
(* stops it.                                                               *)

Signals == {"SIGINT", "SIGTERM"}

\* Stop: the signals caught and not yet taken up are dropped.
\* (variant: they stay queued)
PendingAfterStopKept(queue) == queue
PendingAfterStop(queue) == <<>>

FwdIdle ==
    /\ fwdPc = "idle"
    /\ sigArrived = <<>>
    /\ sigQueue = <<>>
    /\ sigInflight = <<>>
    /\ kills = <<>>
    /\ killsAtStop = 0

\* forwardAllSignals has returned: the forwarder is subscribed.
FwdInit ==
    /\ fwdPc = "catching"
    /\ sigArrived = <<>>
    /\ sigQueue = <<>>
    /\ sigInflight = <<>>
    /\ kills = <<>>
    /\ killsAtStop = 0

\* The process receives a signal; the forwarder catches it while subscribed.
SignalArrives ==
    /\ Len(sigArrived) < MaxSignals
    /\ \E sig \in Signals :
         /\ sigArrived' = Append(sigArrived, sig)
         /\ sigQueue' = IF fwdPc = "catching" THEN Append(sigQueue, sig) ELSE sigQueue
    /\ UNCHANGED <<fwdPc, sigInflight, kills, killsAtStop>>
    /\ UNCHANGED <<runVars, clsVars, cidVars, bsVars, pipeVars>>

\* The forwarder takes up the oldest signal it holds.
ForwardBegin ==
    /\ sigQueue # <<>>
    /\ sigInflight = <<>>
    /\ sigInflight' = <<Head(sigQueue)>>
    /\ sigQueue' = Tail(sigQueue)
    /\ UNCHANGED <<fwdPc, sigArrived, kills, killsAtStop>>
    /\ UNCHANGED <<runVars, clsVars, cidVars, bsVars, pipeVars>>

\* The forwarder issues the daemon's signal call for the signal it took up.
ContainerKill ==
    /\ sigInflight # <<>>
    /\ kills' = Append(kills, sigInflight[1])
    /\ sigInflight' = <<>>
    /\ UNCHANGED <<fwdPc, sigArrived, sigQueue, killsAtStop>>
    /\ UNCHANGED <<runVars, clsVars, cidVars, bsVars, pipeVars>>

\* signal.StopCatch: a forwarding in progress completes before Stop returns
\* or is dropped; the subscription is gone when Stop returns.
StopCatch ==
    /\ fwdPc = "catching"
    /\ fwdPc' = "stopped"
    /\ sigQueue' = PendingAfterStop(sigQueue)
    /\ sigInflight' = <<>>
    /\ \E completes \in BOOLEAN :
         kills' = IF sigInflight # <<>> /\ completes
                  THEN Append(kills, sigInflight[1]) ELSE kills
    /\ killsAtStop' = Len(kills')
    /\ UNCHANGED sigArrived
    /\ UNCHANGED <<runVars, clsVars, cidVars, bsVars, pipeVars>>

----------------------------------------------------------------------------
(* openReaderFromPipe: the copy goroutine, the pipe and its consumer.      *)

PipeBytes == {"a", "b"}
Chunks == SeqsUpTo(PipeBytes, MaxChunk) \ {<<>>}

\* What the source does: Reads that return data and no error, then one
\* that returns io.EOF or another error, with or without data.
Sources ==
    UNION {[1..n -> [data : Chunks \cup {<<>>}, err : {"nil", "EOF", "ErrRead"}]]
           : n \in 1..MaxReads}
SourceRuns ==
    {src \in Sources :
        /\ src[Len(src)].err # "nil"
        /\ \A i \in 1..(Len(src) - 1) : src[i].err = "nil" /\ src[i].data # <<>>}

\* if _, err := io.Copy(w, p); err != nil { r.CloseWithError(err) }
\* (variant: the reader is never closed with the error)
ClosesReaderNever(err) == FALSE
ClosesReader(err) == err # "nil"

PipeIdle ==
    /\ pipeSrc = <<>>
    /\ pipeReads = 0
    /\ pipePc = "idle"
    /\ pipeCopyErr = "nil"
    /\ pipeData = <<>>
    /\ pipeRerr = "nil"
    /\ pipeWerr = "nil"
    /\ pipeGot = <<>>
    /\ pipeSeen = "nil"
    /\ pipeSrcClosed = 0

\* openReaderFromPipe has returned r: the pipe is empty and open, the
\* goroutine is about to call io.Copy.
PipeInit ==
    /\ pipeSrc \in SourceRuns
    /\ pipeReads = 0
    /\ pipePc = "read"
    /\ pipeCopyErr = "nil"
    /\ pipeData = <<>>
    /\ pipeRerr = "nil"
    /\ pipeWerr = "nil"
    /\ pipeGot = <<>>
    /\ pipeSeen = "nil"
    /\ pipeSrcClosed = 0

\* io.Copy is over with the error er of the last Read: io.EOF is no error.
CopyReturns(er) ==
    /\ pipeCopyErr' = IF er = "EOF" THEN "nil" ELSE er
    /\ pipePc' = IF ClosesReader(pipeCopyErr') THEN "closeR" ELSE "closeW"

\* io.Copy: nr, er := src.Read(buf); with nr > 0 the bytes are written
\* before er is looked at.
SrcRead ==
    /\ pipePc = "read"
    /\ pipeReads' = pipeReads + 1
    /\ LET rd == pipeSrc[pipeReads + 1]
       IN  IF rd.data # <<>>
           THEN pipeData' = rd.data /\ pipePc' = "write" /\ UNCHANGED pipeCopyErr
           ELSE CopyReturns(rd.err) /\ UNCHANGED pipeData
    /\ UNCHANGED <<pipeSrc, pipeRerr, pipeWerr, pipeGot, pipeSeen, pipeSrcClosed>>
    /\ UNCHANGED <<runVars, clsVars, cidVars, bsVars, fwdVars>>

\* io.Copy: w.Write returns once the consumer has read all its bytes; then
\* er of the Read ends the loop or not.
WriteReturns ==
    /\ pipePc = "write"
    /\ pipeData = <<>>
    /\ IF pipeSrc[pipeReads].err = "nil"
       THEN pipePc' = "read" /\ UNCHANGED pipeCopyErr
       ELSE CopyReturns(pipeSrc[pipeReads].err)
    /\ UNCHANGED <<pipeSrc, pipeReads, pipeData, pipeRerr, pipeWerr, pipeGot, pipeSeen,
                   pipeSrcClosed>>
    /\ UNCHANGED <<runVars, clsVars, cidVars, bsVars, fwdVars>>

\* r.CloseWithError(err)
CloseReaderWithError ==
    /\ pipePc = "closeR"
    /\ pipeRerr' = pipeCopyErr
    /\ pipePc' = "closeW"
    /\ UNCHANGED <<pipeSrc, pipeReads, pipeCopyErr, pipeData, pipeWerr, pipeGot, pipeSeen,
                   pipeSrcClosed>>
    /\ UNCHANGED <<runVars, clsVars, cidVars, bsVars, fwdVars>>

\* w.Close()
CloseWriter ==
    /\ pipePc = "closeW"
    /\ pipeWerr' = "EOF"
    /\ pipePc' = "closeP"
    /\ UNCHANGED <<pipeSrc, pipeReads, pipeCopyErr, pipeData, pipeRerr, pipeGot, pipeSeen,
                   pipeSrcClosed>>
    /\ UNCHANGED <<runVars, clsVars, cidVars, bsVars, fwdVars>>

\* p.Close()
CloseSource ==
    /\ pipePc = "closeP"
    /\ pipeSrcClosed' = pipeSrcClosed + 1
    /\ pipePc' = "done"
    /\ UNCHANGED <<pipeSrc, pipeReads, pipeCopyErr, pipeData, pipeRerr, pipeWerr, pipeGot,
                   pipeSeen>>
    /\ UNCHANGED <<runVars, clsVars, cidVars, bsVars, fwdVars>>

\* The consumer calls r.Read with room for k bytes: io.ErrClosedPipe once
\* the read side is closed, else bytes of the pending Write, else the
\* write side's close error; it blocks while there is none of these.
ConsumerRead ==
    /\ \E k \in 1..MaxChunk :
         IF pipeRerr # "nil"
         THEN pipeSeen' = "ErrClosedPipe" /\ UNCHANGED <<pipeData, pipeGot>>
         ELSE IF pipeData # <<>>
         THEN LET n == IF k < Len(pipeData) THEN k ELSE Len(pipeData)
              IN  /\ pipeGot' = pipeGot \o SubSeq(pipeData, 1, n)
                  /\ pipeData' = SubSeq(pipeData, n + 1, Len(pipeData))
                  /\ pipeSeen' = "nil"
         ELSE /\ pipeWerr # "nil"
              /\ pipeSeen' = pipeWerr
              /\ UNCHANGED <<pipeData, pipeGot>>
    /\ UNCHANGED <<pipeSrc, pipeReads, pipePc, pipeCopyErr, pipeRerr, pipeWerr,
                   pipeSrcClosed>>
    /\ UNCHANGED <<runVars, clsVars, cidVars, bsVars, fwdVars>>

----------------------------------------------------------------------------
(* The specifications.                                                     *)

CidIdle ==
    /\ cid = [written |-> FALSE, open |-> FALSE]
    /\ cidPath = [exists |-> FALSE, content |-> <<>>]
    /\ cidLog = <<>>
    /\ cidErr = Nil

Init == RunInit /\ ClsIdle /\ CidIdle /\ BsIdle /\ FwdIdle /\ PipeIdle

Spec == Init /\ [][Next]_vars

RunIdle ==
    /\ fl = [autoRemove |-> FALSE, detach |-> FALSE, sigProxy |-> FALSE,
             attachGiven |-> FALSE, restart |-> "no", imageEmpty |-> FALSE,
             ttyInputErr |-> FALSE, isTerminalOut |-> FALSE, detachKeys |-> ""]
    /\ config = [AttachStdin |-> FALSE, AttachStdout |-> FALSE,
                 AttachStderr |-> FALSE, Tty |-> FALSE]
    /\ pc = "Idle"
    /\ result = Nil
    /\ defers = <<>>
    /\ sigProxy = FALSE
    /\ ctxCancelled = FALSE
    /\ trace = <<>>
    /\ sigc = "none"
    /\ waitDisplayID = "nil"
    /\ idEmitted = 0
    /\ errCh = [made |-> FALSE, buf |-> <<>>]
    /\ attachTask = "none"
    /\ errAttach = Nil
    /\ resp = "none"
    /\ startErr = <<>>
    /\ status = 0
    /\ obs = NoObs
    /\ monitor = "none"
    /\ container = [state |-> "none", exitCode |-> 0, restarts |-> 0]
    /\ wiring = NoWiring
    /\ detachKeys = ConfigFileKeys

InitClassify == RunIdle /\ ClsInit /\ CidIdle /\ BsIdle /\ FwdIdle /\ PipeIdle

NextClassify == Classify

SpecClassify == InitClassify /\ [][NextClassify]_vars

InitCid == RunIdle /\ ClsIdle /\ CidInit /\ BsIdle /\ FwdIdle /\ PipeIdle

NextCid ==
    \/ CidWrite
    \/ CidClose

SpecCid == InitCid /\ [][NextCid]_vars

InitBackspace == RunIdle /\ ClsIdle /\ CidIdle /\ BsInit /\ FwdIdle /\ PipeIdle

NextBackspace ==
    \/ FixStdinBackspaceBehavior
    \/ BsWrite

SpecBackspace == InitBackspace /\ [][NextBackspace]_vars

InitForward == RunIdle /\ ClsIdle /\ CidIdle /\ BsIdle /\ FwdInit /\ PipeIdle

NextForward ==
    \/ SignalArrives
    \/ ForwardBegin
    \/ ContainerKill
    \/ StopCatch

SpecForward == InitForward /\ [][NextForward]_vars

InitPipe == RunIdle /\ ClsIdle /\ CidIdle /\ BsIdle /\ FwdIdle /\ PipeInit

NextPipe ==
    \/ SrcRead
    \/ WriteReturns
    \/ CloseReaderWithError
    \/ CloseWriter
    \/ CloseSource
    \/ ConsumerRead

SpecPipe == InitPipe /\ [][NextPipe]_vars

----------------------------------------------------------------------------
(* Properties of CmdRun and of runStartContainerErr.                       *)

Done == pc = "Done"

\* every call named x was issued before every call named y
Before(x, y) ==
    \A i, j \in DOMAIN trace : (trace[i] = x /\ trace[j] = y) => i < j

\* the option combinations that conflict
ConflictingOptions ==
    \/ fl.attachGiven /\ fl.detach
    \/ fl.autoRemove /\ fl.restart \in {"always", "on-failure"}
    \/ fl.autoRemove /\ fl.detach

ConflictErrors == {ErrConflictAttachDetach, ErrConflictRestartPolicyAndAutoRemove,
                   ErrConflictDetachAutoRemove}

\* neither stdout nor stderr is attached
NoOutputAttached == ~config.AttachStdout /\ ~config.AttachStderr

\* attached mode: the container was started and stdout or stderr is attached
Attached == obs.started /\ ~NoOutputAttached

\* The exit status of a daemon failure, stated on the message alone.
ExpectedStatus(msg) ==
    LET t == TrimPrefix(msg, Envelope)
    IN  CASE HasPrefix(t, ContainerCommand) /\ Contains(t, errCmdNotFound) -> 127
          [] HasPrefix(t, ContainerCommand) /\ ~Contains(t, errCmdNotFound)
               /\ Contains(t, errCmdCouldNotBeInvoked) -> 126
          [] OTHER -> 125

\* C1: with one of the three conflicting option combinations (on a request
\* that has an image and passes the tty-input check), no create call is ever
\* issued and the run returns a configuration-conflict error.
C1_ConflictBeforeCreate ==
    (~fl.imageEmpty /\ ~fl.ttyInputErr /\ ConflictingOptions) =>
        /\ Count("create") = 0
        /\ Done => result \in ConflictErrors

\* the shorter phrase of the statement of C2
NotFound == <<"not found">>

\* C2 as stated: after the envelope is stripped, a message that contains
\* "Container command" and "not found" gives 127, one that contains "could not
\* be invoked" gives 126, any other 125.
C2_AsStated ==
    clsPc = "done" =>
        LET t == TrimPrefix(clsMsg, Envelope)
        IN  clsResult =
              StatusError(IF Contains(t, ContainerCommand) /\ Contains(t, NotFound) THEN 127
                          ELSE IF Contains(t, errCmdCouldNotBeInvoked) THEN 126
                          ELSE 125)

\* C2, amended: after the envelope is stripped, the status is 127 exactly
\* when the message starts with "Container command" and contains "not found
\* or does not exist"; 126 exactly when it starts with "Container command",
\* does not contain "not found or does not exist" and contains "could not be
\* invoked"; 125 otherwise; it is always a status error of one of the three.
C2_Classification ==
    clsPc = "done" =>
        LET t == TrimPrefix(clsMsg, Envelope)
        IN  /\ clsResult.kind = "status"
            /\ clsResult.code \in {125, 126, 127}
            /\ clsResult.code = 127 <=>
                 (HasPrefix(t, ContainerCommand) /\ Contains(t, errCmdNotFound))
            /\ clsResult.code = 126 <=>
                 (HasPrefix(t, ContainerCommand) /\ ~Contains(t, errCmdNotFound)
                    /\ Contains(t, errCmdCouldNotBeInvoked))

\* a message with the envelope that is classified 127, and was
C2_Witness ==
    /\ clsPc = "done"
    /\ HasPrefix(clsMsg, Envelope)
    /\ Contains(clsMsg, errCmdNotFound)
    /\ clsResult = StatusError(127)

\* the removal has been scheduled: an auto-remove run has reached the start call
RemovalScheduled == fl.autoRemove /\ (pc = "Start" \/ Count("start") = 1)

\* C3: once the removal is scheduled in an auto-remove run (the start call
\* has been reached), removeContainer is pending until the run returns, is
\* called exactly once by the time it has returned, on every exit path, and
\* also when the run's context has been cancelled.
C3_RemoveOnce ==
    /\ Count("remove") <= 1
    /\ Count("remove") = 1 => (RemovalScheduled /\ pc \in {"Defer", "Done"})
    /\ RemovalScheduled =>
         /\ pc \notin {"Defer", "Done"} =>
              (Count("remove") = 0 /\ \E i \in DOMAIN defers : defers[i] = "removeContainer")
         /\ Done => Count("remove") = 1

\* an auto-remove tty run whose start failed: ctx is cancelled, remove was called
C3_Witness ==
    /\ Done
    /\ fl.autoRemove /\ config.Tty /\ attach
    /\ ctxCancelled
    /\ Count("remove") = 1

\* C4 as stated: with neither stdout nor stderr attached and the container
\* started, the run issues no wait or inspect call and never receives from,
\* or waits on, the attach session.
C4_AsStated ==
    (obs.started /\ NoOutputAttached) =>
        /\ Count("wait") = 0 /\ Count("inspect") = 0
        /\ Count("<-errCh") = 0
        /\ ~(pc = "Session" /\ errCh.made)

\* C4, amended: with neither stdout nor stderr attached and the container
\* started, the run issues no wait or inspect call; when stdin is not
\* attached either it never waits on an attach session, and when stdin is
\* attached it first receives the session's result and returns it if it is an
\* error; in both cases it then returns nil once the ID has been displayed.
C4_DetachedReturn ==
    (obs.started /\ NoOutputAttached) =>
        /\ Count("wait") = 0 /\ Count("inspect") = 0
        /\ pc \notin {"Wait", "Inspect"}
        /\ ~config.AttachStdin => (~errCh.made /\ Count("<-errCh") = 0)
        /\ pc \in {"DisplayID", "Defer", "Done"} =>
             (config.AttachStdin <=> Count("<-errCh") = 1)
        /\ pc \in {"Defer", "Done"} =>
             \/ /\ result = Nil
                /\ waitDisplayID = "closed" /\ idEmitted = 1
                /\ Count("<-waitDisplayID") = 1
             \/ /\ config.AttachStdin
                /\ result # Nil /\ obs.session = <<result>>
                /\ Count("<-waitDisplayID") = 0

\* a stdin-only run that returned nil after the session and the display of the ID
C4_Witness ==
    /\ Done
    /\ obs.started /\ NoOutputAttached /\ config.AttachStdin
    /\ obs.session = <<Nil>>
    /\ result = Nil
    /\ container.state = "running"

\* C5: an attached tty run without auto-remove issues no wait call and at
\* most one inspect call, after the session's result was received, and
\* returns the code of that inspect call.
C5_TtyInspectOnly ==
    (Attached /\ config.Tty /\ ~fl.autoRemove) =>
        /\ Count("wait") = 0
        /\ Count("inspect") <= 1
        /\ Count("inspect") = 1 => (Count("<-errCh") = 1 /\ Before("<-errCh", "inspect"))
        /\ (Done /\ obs.session = <<Nil>>) => Count("inspect") = 1
        /\ (Done /\ obs.inspect # -1) =>
             result = (IF obs.inspect = 0 THEN Nil ELSE StatusError(obs.inspect))

\* the race: the container was still running at the inspect call, never
\* restarted, exited afterwards, and the run returned another code than its
C5_Witness ==
    /\ Done
    /\ Attached /\ config.Tty /\ ~fl.autoRemove
    /\ obs.inspectState = "running"
    /\ container.state = "exited" /\ container.restarts = 0
    /\ container.exitCode # 0
    /\ result = Nil

\* C6: in an attached auto-remove run whose session ended without error,
\* wait is called first and inspect only after wait has returned a code; the
\* run returns the inspect call's code; a wait failure is returned
\* classified 125/126/127 with no inspect call; remove comes after both.
C6_AutoRemoveWaitThenInspect ==
    (Attached /\ fl.autoRemove /\ obs.session = <<Nil>>) =>
        /\ Count("wait") <= 1 /\ Count("inspect") <= 1
        /\ pc = "Inspect" => (Count("wait") = 1 /\ obs.wait # -1)
        /\ Count("inspect") = 1 =>
             (Count("wait") = 1 /\ obs.wait # -1 /\ Before("wait", "inspect"))
        /\ Done => Count("wait") = 1
        /\ (Done /\ obs.inspect # -1) =>
             result = (IF obs.inspect = 0 THEN Nil ELSE StatusError(obs.inspect))
        /\ (Done /\ obs.wait = -1) =>
             (result = StatusError(ExpectedStatus(obs.waitErr)) /\ Count("inspect") = 0)
        /\ Before("wait", "remove") /\ Before("inspect", "remove")
        /\ Done => Count("remove") = 1

\* wait and inspect reported different codes; the inspect code was returned
C6_Witness ==
    /\ Done
    /\ Attached /\ fl.autoRemove /\ obs.session = <<Nil>>
    /\ obs.wait > 0 /\ obs.inspect > 0 /\ obs.wait # obs.inspect
    /\ result = StatusError(obs.inspect)
    /\ Count("remove") = 1

\* C7: in an attached non-tty run without auto-remove whose session ended
\* without error, wait is called, inspect never, and the code wait reported
\* is returned: nil when it is 0, a StatusError with that code otherwise.
C7_NonTtyWaitCode ==
    (Attached /\ ~config.Tty /\ ~fl.autoRemove /\ obs.session = <<Nil>>) =>
        /\ Count("inspect") = 0
        /\ Count("wait") <= 1
        /\ Done => Count("wait") = 1
        /\ (Done /\ obs.wait # -1) =>
             /\ obs.wait = 0 => result = Nil
             /\ obs.wait # 0 => result = [kind |-> "status", code |-> obs.wait, msg |-> <<>>]

\* a non-tty run that returned the non-zero code wait reported
C7_Witness ==
    /\ Done
    /\ Attached /\ ~config.Tty /\ ~fl.autoRemove /\ obs.session = <<Nil>>
    /\ obs.wait = MaxExit
    /\ result = StatusError(MaxExit)

\* C8: when ContainerStart fails with a session open, ctx is cancelled and
\* the run returns only after it received the attach task's result, with the
\* classified start error; with no session it returns the classified start
\* error without cancelling or receiving.
C8_StartFailure ==
    /\ pc = "StartFailed" => (attach /\ errCh.made /\ ctxCancelled)
    /\ (startErr # <<>> /\ pc \in {"Defer", "Done"}) =>
         /\ result = StatusError(ExpectedStatus(startErr))
         /\ attach => /\ ctxCancelled
                      /\ Count("<-errCh") = 1
                      /\ attachTask = "done"
                      /\ obs.session # <<>>
         /\ ~attach => (~ctxCancelled /\ Count("<-errCh") = 0)

\* start failed with "command not found", the session ended by the
\* cancellation, and 127 was returned
C8_Witness ==
    /\ Done
    /\ startErr # <<>> /\ attach
    /\ obs.session = <<ErrCanceled>>
    /\ result = StatusError(127)

\* C9: the signal forwarder is started at most once, only after a
\* successful create, and then if and only if signal-proxy is on and the
\* session is not a tty; once the run has returned it has been stopped
\* exactly as often as it was started.
C9_SignalForwarder ==
    /\ Count("forwardAllSignals") <= 1
    /\ Count("StopCatch") <= Count("forwardAllSignals")
    /\ Count("forwardAllSignals") = 1 =>
         (container.state # "none" /\ Before("create", "forwardAllSignals"))
    /\ container.state # "none" =>
         (Count("forwardAllSignals") = 1 <=> (fl.sigProxy /\ ~config.Tty))
    /\ Count("StopCatch") = 1 => pc \in {"Defer", "Done"}
    /\ Done => /\ Count("StopCatch") = Count("forwardAllSignals")
               /\ sigc = IF Count("forwardAllSignals") = 1 THEN "stopped" ELSE "none"

\* the forwarder was started and stopped on the --restart/--rm conflict path
C9_Witness ==
    /\ Done
    /\ result = ErrConflictRestartPolicyAndAutoRemove
    /\ Count("forwardAllSignals") = 1
    /\ Count("StopCatch") = 1

\* The run has returned: its result is set, deferred calls may be pending.
Returned == pc \in {"Defer", "Done"}

\* The calls that resolve the exit status.
ExitCalls == Count("wait") + Count("inspect")

\* C12 as stated: connection-closed from ContainerAttach followed by a clean
\* copy is not returned as an error, and every other attach or copy failure
\* is the result of the run.
C12_AsStated ==
    Returned =>
        /\ (errAttach = ErrPersistEOF /\ obs.hijack = <<Nil>>) => result # ErrPersistEOF
        /\ (Count("attach") = 1 /\ errAttach \notin {Nil, ErrPersistEOF}) =>
             result = errAttach
        /\ (obs.hijack # <<>> /\ obs.hijack # <<Nil>>) => result = obs.hijack[1]

\* C12: ContainerAttach failing with anything but connection-closed is
\* returned at once; otherwise the session delivers the copy loop's error,
\* or what ContainerAttach returned (nil or connection-closed) when the copy
\* loop ended cleanly; after a successful start a non-nil delivery is the
\* result of the run and no exit status is resolved, a nil delivery lets the
\* run go on to the exit status; after a failed start the result is the
\* classified start error.
C12_SessionResult ==
    /\ (Count("attach") = 1 /\ errAttach \notin {Nil, ErrPersistEOF}) =>
         (Returned /\ result = errAttach /\ Count("start") = 0)
    /\ obs.session # <<>> =>
         /\ obs.hijack # <<>>
         /\ obs.session = <<IF obs.hijack = <<Nil>> THEN errAttach ELSE obs.hijack[1]>>
    /\ (obs.session # <<>> /\ obs.started) =>
         IF obs.session # <<Nil>>
         THEN Returned /\ result = obs.session[1] /\ ExitCalls = 0
         ELSE Done => (ExitCalls >= 1 \/ NoOutputAttached)
    /\ (obs.session # <<>> /\ startErr # <<>>) =>
         (Returned /\ result = StatusError(ExpectedStatus(startErr)))

\* connection-closed, a started container and a clean copy: the run returned
\* the connection-closed error
C12_Witness ==
    /\ Done
    /\ obs.started
    /\ errAttach = ErrPersistEOF
    /\ obs.hijack = <<Nil>>
    /\ result = ErrPersistEOF
    /\ ExitCalls = 0

\* C14: once the attach task has been started the run returns only after it
\* has received the task's result, which it receives once and no more, the
\* task having ended; a receive is pending only while none was made; and
\* the hijacked connection is closed when the run's deferred calls are done.
C14_SessionJoined ==
    /\ Count("<-errCh") <= 1
    /\ Count("<-errCh") = 1 => (errCh.made /\ attachTask = "done" /\ errCh.buf = <<>>)
    /\ pc = "StartFailed" => (errCh.made /\ Count("<-errCh") = 0)
    /\ (pc = "Session" /\ errCh.made) => Count("<-errCh") = 0
    /\ (errCh.made /\ Returned) =>
         /\ Count("<-errCh") = 1
         /\ attachTask = "done"
         /\ obs.session # <<>>
    /\ (errCh.made /\ Done) => resp = "closed"

\* a started container whose session failed: the error was received once
\* and the connection closed before the run was over
C14_Witness ==
    /\ Done
    /\ obs.started
    /\ obs.session = <<ErrHijack>>
    /\ Count("<-errCh") = 1
    /\ attachTask = "done"
    /\ resp = "closed"

\* one of the three streams is to be attached
AttachRequested == config.AttachStdin \/ config.AttachStdout \/ config.AttachStderr

\* C15: create, attach and start are issued at most once; attach and start
\* only after a create that succeeded; start only after the attach, if one
\* was requested, has opened; wait and inspect only after a start that
\* succeeded; and remove after all of them.
C15_CallOrder ==
    /\ Count("create") <= 1 /\ Count("attach") <= 1 /\ Count("start") <= 1
    /\ (Count("attach") = 1 \/ Count("start") = 1) =>
         /\ Count("create") = 1
         /\ container.state # "none"
         /\ Before("create", "attach") /\ Before("create", "start")
    /\ Count("attach") = 1 => AttachRequested
    /\ Count("start") = 1 =>
         /\ AttachRequested => (Count("attach") = 1 /\ errAttach \in {Nil, ErrPersistEOF})
         /\ Before("attach", "start")
    /\ ExitCalls >= 1 =>
         /\ obs.started /\ Count("start") = 1
         /\ Before("start", "wait") /\ Before("start", "inspect")
    /\ \A c \in {"create", "attach", "start", "wait", "inspect"} : Before(c, "remove")

\* a run with --rm and an attached stream: all six calls, in order
C15_Witness ==
    /\ Done
    /\ trace = <<"create", "attach", "start", "<-errCh", "wait", "inspect", "remove">>

\* C16: in a run with --rm, once create has succeeded the run does not end
\* without one removeContainer call.
C16_RemoveOnEveryExit ==
    (Done /\ fl.autoRemove /\ container.state # "none") => Count("remove") = 1

\* C17: the goroutine that displays the ID is started if and only if create
\* succeeded with neither stdout nor stderr attached; it writes the ID once
\* and then closes waitDisplayID; a run that started it returns nil only
\* after it has received from waitDisplayID.
C17_DisplayID ==
    /\ idEmitted <= 1
    /\ waitDisplayID # "nil" <=> (container.state # "none" /\ NoOutputAttached)
    /\ waitDisplayID = "closed" <=> idEmitted = 1
    /\ Count("<-waitDisplayID") <= 1
    /\ (Returned /\ result = Nil /\ waitDisplayID # "nil") =>
         /\ waitDisplayID = "closed"
         /\ idEmitted = 1
         /\ Count("<-waitDisplayID") = 1

\* a run with stdin only: the session ended cleanly, the ID was displayed
\* and the run returned nil
C17_Witness ==
    /\ Done
    /\ result = Nil
    /\ config.AttachStdin /\ NoOutputAttached
    /\ obs.session = <<Nil>>
    /\ idEmitted = 1
    /\ Count("<-waitDisplayID") = 1

\* What a run whose container was started returns, from what it received
\* from the session and from the wait and inspect calls.
ExpectedResult ==
    IF obs.session # <<>> /\ obs.session # <<Nil>> THEN obs.session[1]
    ELSE IF NoOutputAttached THEN Nil
    ELSE IF obs.waitErr # <<>>
    THEN (IF fl.autoRemove THEN StatusError(ExpectedStatus(obs.waitErr))
          ELSE Error(obs.waitErr))
    ELSE IF obs.inspectErr # <<>> THEN Error(obs.inspectErr)
    ELSE LET st == IF fl.autoRemove \/ config.Tty THEN obs.inspect ELSE obs.wait
         IN  IF st # 0 THEN StatusError(st) ELSE Nil

\* C18: monitorTtySize is called at most once, after a successful start, and
\* only with a stream attached, a tty and a terminal as output; whether it
\* failed or not, the run goes on to the session's result and returns what
\* the session and the exit-status calls gave.
C18_MonitorNotFatal ==
    /\ Count("monitorTtySize") <= 1
    /\ monitor # "none" <=> Count("monitorTtySize") = 1
    /\ monitor # "none" =>
         /\ obs.started /\ Before("start", "monitorTtySize")
         /\ AttachRequested /\ config.Tty /\ fl.isTerminalOut
         /\ \A c \in {"<-errCh", "wait", "inspect"} : Before("monitorTtySize", c)
    /\ (monitor # "none" /\ Returned) =>
         /\ Count("<-errCh") = 1
         /\ result = ExpectedResult

\* the monitor failed, the session ended cleanly and the run returned the
\* exit code that inspect gave
C18_Witness ==
    /\ Done
    /\ monitor = "failed"
    /\ obs.session = <<Nil>>
    /\ obs.inspect = 1
    /\ result = StatusError(1)

\* C20: ContainerAttach is called if and only if one of the three streams is
\* attached; it is given stdin iff AttachStdin, stdout iff AttachStdout,
\* and for stderr, iff AttachStderr, stdout with a tty and stderr without;
\* its options name the same streams and carry the --detach-keys value
\* when there is one, the configuration file's otherwise.  A detached run
\* has the three attach flags cleared before create and never calls
\* ContainerAttach.
C20_AttachWiring ==
    /\ ~AttachRequested => (Count("attach") = 0 /\ wiring = NoWiring)
    /\ (AttachRequested /\ Count("start") = 1) => Count("attach") = 1
    /\ Count("attach") = 1 =>
         /\ ~fl.detach
         /\ wiring.in = (IF config.AttachStdin THEN "cli.in" ELSE "nil")
         /\ wiring.out = (IF config.AttachStdout THEN "cli.out" ELSE "nil")
         /\ wiring.stderr = (IF ~config.AttachStderr THEN "nil"
                             ELSE IF config.Tty THEN "cli.out" ELSE "cli.err")
         /\ wiring.options.Stream
         /\ wiring.options.Stdin = config.AttachStdin
         /\ wiring.options.Stdout = config.AttachStdout
         /\ wiring.options.Stderr = config.AttachStderr
         /\ wiring.options.DetachKeys =
              (IF fl.detachKeys # "" THEN fl.detachKeys ELSE ConfigFileKeys)
    /\ (fl.detach /\ Count("create") = 1) => ~AttachRequested
    /\ fl.detach => Count("attach") = 0

\* stderr attached on a tty with --detach-keys given: stderr goes to the
\* stdout stream and the options carry the keys
C20_Witness ==
    /\ Count("attach") = 1
    /\ config.Tty /\ config.AttachStderr /\ ~config.AttachStdout
    /\ fl.detachKeys = "ctrl-x"
    /\ wiring.stderr = "cli.out"
    /\ wiring.out = "nil"
    /\ wiring.options.DetachKeys = "ctrl-x"

----------------------------------------------------------------------------
(* Properties of cidFile.                                                  *)

\* the bytes the Writes among the first k calls put in the file
RECURSIVE WrittenBytes(_)
WrittenBytes(k) ==
    IF k = 0 THEN <<>>
    ELSE WrittenBytes(k - 1) \o
         (IF cidLog[k].op = "Write" THEN SubSeq(cidLog[k].id, 1, cidLog[k].n) ELSE <<>>)

WriteCalledBefore(k) == \E j \in 1..(k - 1) : cidLog[j].op = "Write"
WriteSucceededBefore(k) ==
    \E j \in 1..(k - 1) : cidLog[j].op = "Write" /\ cidLog[j].err = Nil

\* C10 as stated: a Close removes the path (or reports that the removal
\* failed) if and only if Write was never called before it.
C10_AsStated ==
    \A k \in DOMAIN cidLog :
        cidLog[k].op = "Close" => (cidLog[k].tried <=> ~WriteCalledBefore(k))

\* C10, amended: a Close removes the path (or reports that the removal
\* failed) if and only if no Write before it succeeded; once a Write has
\* succeeded the path stays present, with exactly the bytes written to it,
\* whatever is closed; a Close returns the removal error exactly when its
\* removal failed, and nil otherwise.
C10_CloseRemovesUnwritten ==
    /\ \A k \in DOMAIN cidLog :
         cidLog[k].op = "Close" =>
           /\ cidLog[k].tried <=> ~WriteSucceededBefore(k)
           /\ cidLog[k].err = (IF cidLog[k].tried /\ ~cidLog[k].removed
                               THEN ErrCidRemove ELSE Nil)
    /\ cid.written <=> WriteSucceededBefore(Len(cidLog) + 1)
    /\ cid.written => (cidPath.exists /\ cidPath.content = WrittenBytes(Len(cidLog)))
    /\ (\E k \in DOMAIN cidLog : cidLog[k].removed) => ~cidPath.exists

\* a Write failed, a second succeeded, and Close left the path with the bytes
C10_Witness ==
    /\ Len(cidLog) = 3
    /\ cidLog[1].op = "Write" /\ cidLog[1].err # Nil
    /\ cidLog[2].op = "Write" /\ cidLog[2].err = Nil
    /\ cidLog[3].op = "Close" /\ ~cidLog[3].tried
    /\ cidPath.exists /\ cidPath.content # <<>>

----------------------------------------------------------------------------
(* Properties of fixStdinBackspaceBehavior.                                *)

\* C11: the writer underneath receives as many bytes as were written; on a
\* tty with a build older than 14350 every 0x7F has become 0x08 and every
\* other byte is unchanged, otherwise the bytes are unchanged; the caller's
\* slice is as it was.
C11_BackspaceFilter ==
    bsWrites > 0 =>
        /\ Len(bsLast.got) = Len(bsLast.b)
        /\ bsLast.buf = bsLast.b
        /\ (bsTty /\ bsBuild < 14350) =>
             \A i \in 1..Len(bsLast.b) :
                 bsLast.got[i] = IF bsLast.b[i] = 127 THEN 8 ELSE bsLast.b[i]
        /\ (~bsTty \/ bsBuild >= 14350) => bsLast.got = bsLast.b
        /\ bsWriter = "delToBsWriter" <=> (bsTty /\ bsBuild < 14350)

\* a DEL and another byte written on a tty of build 14349
C11_Witness ==
    /\ bsTty /\ bsBuild = 14349
    /\ bsLast.b = <<65, 127, 8>>
    /\ bsLast.got = <<65, 8, 8>>

----------------------------------------------------------------------------
(* Properties of the signal forwarder.                                     *)

\* xs is an initial part of ys
IsPrefix(xs, ys) == Len(xs) <= Len(ys) /\ xs = SubSeq(ys, 1, Len(xs))

\* C13: once Stop has returned no signal call is issued any more: the calls
\* are those issued when Stop returned, nothing is queued or in progress;
\* and the calls issued are the signals received, in the order received,
\* up to the first one that was dropped.
C13_StopEndsForwarding ==
    /\ IsPrefix(kills, sigArrived)
    /\ fwdPc = "stopped" =>
         /\ Len(kills) = killsAtStop
         /\ sigQueue = <<>>
         /\ sigInflight = <<>>

\* two different signals were forwarded in order, Stop returned, and a third
\* signal arrived without a call
C13_Witness ==
    /\ fwdPc = "stopped"
    /\ sigArrived = <<"SIGINT", "SIGTERM", "SIGINT">>
    /\ kills = <<"SIGINT", "SIGTERM">>
    /\ killsAtStop = 2

----------------------------------------------------------------------------
(* Properties of openReaderFromPipe.                                       *)

RECURSIVE DataOf(_, _)
\* the bytes of the first n Reads of src
DataOf(src, n) == IF n = 0 THEN <<>> ELSE DataOf(src, n - 1) \o src[n].data

\* all the bytes the source produces, and how it ends
AllData == DataOf(pipeSrc, Len(pipeSrc))
SourceFailed == pipeSrc[Len(pipeSrc)].err # "EOF"

\* C19: the consumer has read an initial part of the bytes the source
\* produced; when a Read of it returns an error it has read them all, and
\* the error is io.EOF if the source ended with io.EOF and another error
\* if the source failed; the source is closed once, when the copy and
\* both closes of the pipe are over.
C19_PipeRelay ==
    /\ IsPrefix(pipeGot, DataOf(pipeSrc, pipeReads))
    /\ pipeSeen # "nil" =>
         /\ pipeGot = AllData
         /\ pipeSeen = "EOF" <=> ~SourceFailed
    /\ pipeSrcClosed = (IF pipePc = "done" THEN 1 ELSE 0)
    /\ pipePc \in {"closeR", "closeW", "closeP", "done"} =>
         /\ pipeReads = Len(pipeSrc)
         /\ pipeGot = AllData
         /\ pipeCopyErr # "nil" <=> SourceFailed

\* the source gave two bytes and then failed with one more: the consumer
\* read the three, then got an error that is not io.EOF, and the source was
\* closed
C19_Witness ==
    /\ pipeSrc = <<[data |-> <<"a", "b">>, err |-> "nil"],
                   [data |-> <<"a">>, err |-> "ErrRead"]>>
    /\ pipeGot = <<"a", "b", "a">>
    /\ pipeSeen = "ErrClosedPipe"
    /\ pipeSrcClosed = 1

====
